---- MODULE Spec2Model ----
(***************************************************************************)
(* Package sorter (package_sorter.py): Package.__init__ validates width,   *)
(* height, length and mass through _validate_numeric, the cached           *)
(* properties volume and max_dimension feed is_bulky / is_heavy, and       *)
(* get_stack maps them to STANDARD / SPECIAL / REJECTED.  sort() builds a  *)
(* Package and returns its stack.                                          *)
(*                                                                         *)
(* Floats are binary floating-point values m * 2^e with m odd (or zero),   *)
(* plus nan and +/-inf.  Every finite value the model computes has a       *)
(* mantissa far below 2^53, so each product and conversion below is the    *)
(* exact IEEE-754 double result (no rounding ever applies).                *)
(***************************************************************************)
EXTENDS Integers, Sequences, FiniteSets, TLC

VARIABLES tracked, pc, entry, args, self, examined, outcome, last, reads, stacks,
          nvol, nmax, frozen, calls, remembered

vars == <<tracked, pc, entry, args, self, examined, outcome, last, reads, stacks,
          nvol, nmax, frozen, calls, remembered>>

-----------------------------------------------------------------------------
(* Bounds of the exploration *)

MaxCalls == 3
MaxBuilds == 1
MaxReads == 3

-----------------------------------------------------------------------------
(* Python floats *)

RECURSIVE Pow(_, _)
Pow(b, n) == IF n = 0 THEN 1 ELSE b * Pow(b, n - 1)

RECURSIVE Fin(_, _)
\* the float m * 2^e, in canonical form
Fin(m, e) ==
    IF m = 0 THEN [k |-> "fin", m |-> 0, e |-> 0]
    ELSE IF m % 2 = 0 THEN Fin(m \div 2, e + 1)
    ELSE [k |-> "fin", m |-> m, e |-> e]

NaN == [k |-> "nan", m |-> 0, e |-> 0]
PosInf == [k |-> "inf", m |-> 1, e |-> 0]
NegInf == [k |-> "inf", m |-> -1, e |-> 0]
\* Python's None, and an attribute the instance does not have yet
None == [k |-> "None", m |-> 0, e |-> 0]
Absent == [k |-> "absent", m |-> 0, e |-> 0]

isnan(x) == x.k = "nan"
isinf(x) == x.k = "inf"

\* x * 2^d < y, for d >= 0, without leaving 32 bits
ScaledLt(x, d, y) ==
    IF x = 0 THEN 0 < y
    ELSE IF d >= 31 THEN x < 0
    ELSE x < -((-y) \div Pow(2, d))

\* x * 2^d > y, for d >= 0
ScaledGt(x, d, y) ==
    IF x = 0 THEN 0 > y
    ELSE IF d >= 31 THEN x > 0
    ELSE x > y \div Pow(2, d)

\* a < b on floats: false when either is nan
FLt(a, b) ==
    IF a.k = "nan" \/ b.k = "nan" THEN FALSE
    ELSE IF a.k = "inf" THEN a.m < 0 /\ b # NegInf
    ELSE IF b.k = "inf" THEN b.m > 0
    ELSE IF a.e >= b.e THEN ScaledLt(a.m, a.e - b.e, b.m)
    ELSE ScaledGt(b.m, b.e - a.e, a.m)

FGt(a, b) == FLt(b, a)
FLe(a, b) == a.k # "nan" /\ b.k # "nan" /\ (a = b \/ FLt(a, b))
FGe(a, b) == FLe(b, a)

\* a * b on finite floats
FMul(a, b) == Fin(a.m * b.m, a.e + b.e)

\* max(a, b, c): the first of the largest
Max3(a, b, c) ==
    LET ab == IF FGt(b, a) THEN b ELSE a
    IN IF FGt(c, ab) THEN c ELSE ab

-----------------------------------------------------------------------------
(* Class constants of Package *)

MAX_DIMENSION == 1000
MAX_MASS == 1000
\* sys.float_info.epsilon = 2^-52
MIN_DIMENSION == Fin(1, -52)
BULKY_VOLUME == 1000000
BULKY_DIMENSION == 150
HEAVY_MASS == 20

\* an int constant as the float it is compared as
IntF(n) == Fin(n, 0)

-----------------------------------------------------------------------------
(* Python values handed to sort() / Package()                              *)
(*   float    [ty |-> "float", f]                                          *)
(*   int      [ty |-> "int", n, exp10]        the integer n * 10^exp10     *)
(*   str      [ty |-> "str", s]               s a sequence of characters   *)
(*   Decimal  [ty |-> "Decimal", d]                                        *)
(*   None, list                                                           *)

PyFloat(f) == [ty |-> "float", f |-> f]
PyInt(n) == [ty |-> "int", n |-> n, exp10 |-> 0]
PyBigInt(n, x) == [ty |-> "int", n |-> n, exp10 |-> x]
PyStr(s) == [ty |-> "str", s |-> s]
PyDecimal(d) == [ty |-> "Decimal", d |-> d]
PyNone == [ty |-> "NoneType"]
PyList == [ty |-> "list"]

\* characters: ASCII and full-width digits, white space, and a few others
AsciiDigits == <<"0", "1", "2", "3", "4", "5", "6", "7", "8", "9">>
FullwidthDigits == <<"U+FF10", "U+FF11", "U+FF12", "U+FF13", "U+FF14",
                     "U+FF15", "U+FF16", "U+FF17", "U+FF18", "U+FF19">>
\* str.isspace(): space, tab, ideographic space
isspace(c) == c \in {" ", "\t", "U+3000"}
IsDigit(c) == \E i \in 1..10 : AsciiDigits[i] = c \/ FullwidthDigits[i] = c
DigitValue(c) == (CHOOSE i \in 1..10 : AsciiDigits[i] = c \/ FullwidthDigits[i] = c) - 1

\* ''.join(char for char in value if not char.isspace())
StripSpace(s) == SelectSeq(s, LAMBDA c : ~isspace(c))

AllDigits(s) == \A i \in DOMAIN s : IsDigit(s[i])

RECURSIVE DigitsValue(_)
DigitsValue(s) ==
    IF s = <<>> THEN 0
    ELSE 10 * DigitsValue(SubSeq(s, 1, Len(s) - 1)) + DigitValue(s[Len(s)])

\* first index of c in s, 0 when absent
IndexOf(s, c) ==
    IF \E i \in DOMAIN s : s[i] = c
    THEN CHOOSE i \in DOMAIN s : s[i] = c /\ \A j \in 1..(i - 1) : s[j] # c
    ELSE 0

RECURSIVE NumDigits(_)
NumDigits(n) == IF n < 10 THEN 1 ELSE 1 + NumDigits(n \div 10)

InvalidOperation == [ok |-> FALSE]

\* the numeric form of decimal's grammar: digits with at most one point,
\* then an optional exponent; sign is 1 or -1
DecimalNumber(sign, r) ==
    LET ePos == IndexOf(r, "e")
        mant == IF ePos = 0 THEN r ELSE SubSeq(r, 1, ePos - 1)
        expo == IF ePos = 0 THEN <<>> ELSE SubSeq(r, ePos + 1, Len(r))
        eNeg == expo # <<>> /\ expo[1] = "-"
        eDig == IF expo # <<>> /\ expo[1] \in {"-", "+"} THEN Tail(expo) ELSE expo
        dot == IndexOf(mant, ".")
        ip == IF dot = 0 THEN mant ELSE SubSeq(mant, 1, dot - 1)
        fp == IF dot = 0 THEN <<>> ELSE SubSeq(mant, dot + 1, Len(mant))
        x == IF ePos = 0 THEN 0
             ELSE IF eNeg THEN -DigitsValue(eDig) ELSE DigitsValue(eDig)
    IN IF /\ AllDigits(ip) /\ AllDigits(fp) /\ Len(ip) + Len(fp) >= 1
          /\ (ePos = 0 \/ (eDig # <<>> /\ AllDigits(eDig)))
       THEN [ok |-> TRUE,
             d |-> [k |-> "fin", sign |-> sign, coef |-> DigitsValue(ip \o fp),
                    exp |-> x - Len(fp)]]
       ELSE InvalidOperation

\* Decimal(str): digits of any script are accepted; lower-case spellings of
\* the special values
Decimal(s) ==
    LET signed == s # <<>> /\ s[1] \in {"-", "+"}
        sign == IF s # <<>> /\ s[1] = "-" THEN -1 ELSE 1
        r == IF signed THEN Tail(s) ELSE s
    IN IF r \in {<<"i", "n", "f">>, <<"i", "n", "f", "i", "n", "i", "t", "y">>}
       THEN [ok |-> TRUE, d |-> [k |-> "inf", sign |-> sign, coef |-> 0, exp |-> 0]]
       ELSE IF r = <<"n", "a", "n">>
       THEN [ok |-> TRUE, d |-> [k |-> "nan", sign |-> sign, coef |-> 0, exp |-> 0]]
       ELSE IF r = <<"s", "n", "a", "n">>
       THEN [ok |-> TRUE, d |-> [k |-> "snan", sign |-> sign, coef |-> 0, exp |-> 0]]
       ELSE DecimalNumber(sign, r)

\* Decimal.__float__ on a finite decimal coef * 10^exp: the nearest double.
\* Beyond the double range the result is inf or 0.0; the decimals that occur
\* here are otherwise exactly representable, so CASE has no rounding arm.
DecimalFinToFloat(d) ==
    CASE d.coef = 0 -> Fin(0, 0)
      [] d.coef # 0 /\ NumDigits(d.coef) + d.exp > 309 ->
            IF d.sign < 0 THEN NegInf ELSE PosInf
      [] d.coef # 0 /\ NumDigits(d.coef) + d.exp < -324 -> Fin(0, 0)
      [] d.coef # 0 /\ d.exp >= 0 /\ NumDigits(d.coef) + d.exp <= 9 ->
            Fin(d.sign * d.coef * Pow(10, d.exp), 0)
      [] d.coef # 0 /\ d.exp < 0 /\ d.exp >= -9 /\ d.coef % Pow(5, -d.exp) = 0 ->
            Fin(d.sign * (d.coef \div Pow(5, -d.exp)), d.exp)

\* float(value): [ok, f] or the exception raised
float(value) ==
    CASE value.ty = "float" -> [ok |-> TRUE, f |-> value.f]
      [] value.ty = "int" ->
            IF value.exp10 = 0 THEN [ok |-> TRUE, f |-> Fin(value.n, 0)]
            ELSE IF NumDigits(value.n) + value.exp10 > 309
            THEN [ok |-> FALSE, exc |-> "OverflowError"]
            ELSE [ok |-> TRUE, f |-> Fin(value.n * Pow(10, value.exp10), 0)]
      [] value.ty = "Decimal" ->
            (CASE value.d.k = "nan" -> [ok |-> TRUE, f |-> NaN]
               [] value.d.k = "snan" -> [ok |-> FALSE, exc |-> "ValueError"]
               [] value.d.k = "inf" ->
                     [ok |-> TRUE, f |-> IF value.d.sign < 0 THEN NegInf ELSE PosInf]
               [] value.d.k = "fin" -> [ok |-> TRUE, f |-> DecimalFinToFloat(value.d)])
      [] value.ty = "str" -> [ok |-> FALSE, exc |-> "ValueError"]
      [] value.ty \in {"NoneType", "list"} -> [ok |-> FALSE, exc |-> "TypeError"]

-----------------------------------------------------------------------------
(* Package._validate_numeric *)

\* PackageError carrying one of the four f-string messages
PackageError(msg) == [ok |-> FALSE, exc |-> "PackageError", msg |-> msg]

FiniteMsg(param_name, value) ==
    [fmt |-> "Invalid {param_name}: {value}. Must be a finite number",
     param_name |-> param_name, value |-> value]

GreaterMsg(param_name, value) ==
    [fmt |-> "Invalid {param_name}: {value}. Must be greater than {MIN_DIMENSION}",
     param_name |-> param_name, value |-> value, limit |-> MIN_DIMENSION]

MassMsg == [fmt |-> "Mass exceeds maximum limit of {MAX_MASS}kg", limit |-> MAX_MASS]

DimensionMsg ==
    [fmt |-> "Dimension exceeds maximum limit of {MAX_DIMENSION}cm",
     limit |-> MAX_DIMENSION]

ValidMsg(param_name, value) ==
    [fmt |-> "Invalid {param_name}: {value}. Must be a valid number",
     param_name |-> param_name, value |-> value]

\* math.isnan(value) or math.isinf(value)
NotFinite(f) == isnan(f) \/ isinf(f)

\* value < Package.MIN_DIMENSION: the threshold itself would pass
TooSmallStrict(f) == FLt(f, MIN_DIMENSION)

\* value <= Package.MIN_DIMENSION
TooSmall(f) == FLe(f, MIN_DIMENSION)

\* value > Package.MAX_MASS for mass, value > Package.MAX_DIMENSION otherwise
TooLarge(f, param_name) ==
    IF param_name = "mass" THEN FGt(f, IntF(MAX_MASS))
    ELSE FGt(f, IntF(MAX_DIMENSION))

\* the checks made on the converted float
CheckFloat(f, param_name) ==
    IF NotFinite(f) THEN PackageError(FiniteMsg(param_name, PyFloat(f)))
    ELSE IF TooSmall(f) THEN PackageError(GreaterMsg(param_name, PyFloat(f)))
    ELSE IF TooLarge(f, param_name)
    THEN PackageError(IF param_name = "mass" THEN MassMsg ELSE DimensionMsg)
    ELSE [ok |-> TRUE, f |-> f]

\* except (ValueError, TypeError, InvalidOperation): anything else propagates
Caught(exc) == exc \in {"ValueError", "TypeError", "InvalidOperation"}

\* what an exception raised inside the try block turns into; value is the
\* binding of the local at the time
Handle(exc, param_name, value) ==
    IF Caught(exc) THEN PackageError(ValidMsg(param_name, value))
    ELSE [ok |-> FALSE, exc |-> exc, msg |-> [fmt |-> "int too large to convert to float"]]

\* _validate_numeric(value, param_name): [ok |-> TRUE, f] or the exception
validate_numeric(value, param_name) ==
    LET stripped == IF value.ty = "str" THEN PyStr(StripSpace(value.s)) ELSE value
        dec == IF value.ty = "str" THEN Decimal(stripped.s) ELSE InvalidOperation
        parsed == IF value.ty = "str" /\ dec.ok THEN PyDecimal(dec.d) ELSE stripped
        fl == float(parsed)
    IN IF value.ty = "str" /\ ~dec.ok
       THEN Handle("InvalidOperation", param_name, stripped)
       ELSE IF ~fl.ok THEN Handle(fl.exc, param_name, parsed)
       ELSE CheckFloat(fl.f, param_name)

-----------------------------------------------------------------------------
(* Package: attributes, cached properties, get_stack *)

\* a new instance: no attribute set yet
Blank ==
    [width |-> Absent, height |-> Absent, length |-> Absent, mass |-> Absent,
     volume_ |-> Absent, max_dimension_ |-> Absent]

\* one shared instance, handed out again with what it holds
NewInstanceReused(old) == old

\* Package(...) allocates its own instance, whatever the last one held
NewInstance(old) == Blank

\* self._volume = None; self._max_dimension = None
InitCache(obj) == [obj EXCEPT !.volume_ = None, !.max_dimension_ = None]

\* The properties are evaluated on st = [self, nvol, nmax]: the instance and
\* the number of times each cached value has been computed on it.  Each
\* returns [ret, st].

\* self.width * self.height * self.length
ComputeVolume(obj) == FMul(FMul(obj.width, obj.height), obj.length)

\* max(self.width, self.height, self.length)
ComputeMaxDimension(obj) == Max3(obj.width, obj.height, obj.length)

\* volume without the `is None` test: computed on every read
volume_uncached(st) ==
    LET v == ComputeVolume(st.self)
    IN [ret |-> v, st |-> [st EXCEPT !.self.volume_ = v, !.nvol = @ + 1]]

volume(st) ==
    IF st.self.volume_ = None
    THEN LET v == ComputeVolume(st.self)
         IN [ret |-> v, st |-> [st EXCEPT !.self.volume_ = v, !.nvol = @ + 1]]
    ELSE [ret |-> st.self.volume_, st |-> st]

max_dimension(st) ==
    IF st.self.max_dimension_ = None
    THEN LET v == ComputeMaxDimension(st.self)
         IN [ret |-> v, st |-> [st EXCEPT !.self.max_dimension_ = v, !.nmax = @ + 1]]
    ELSE [ret |-> st.self.max_dimension_, st |-> st]

\* self.volume > self.BULKY_VOLUME
VolumeBulkyStrict(v) == FGt(v, IntF(BULKY_VOLUME))

\* self.volume >= self.BULKY_VOLUME
VolumeBulky(v) == FGe(v, IntF(BULKY_VOLUME))

\* self.max_dimension >= self.BULKY_DIMENSION
DimensionBulky(d) == FGe(d, IntF(BULKY_DIMENSION))

\* `or` evaluates max_dimension only when the volume test is false
is_bulky(st) ==
    LET v == volume(st)
    IN IF VolumeBulky(v.ret) THEN [ret |-> TRUE, st |-> v.st]
       ELSE LET d == max_dimension(v.st)
            IN [ret |-> DimensionBulky(d.ret), st |-> d.st]

\* self.mass >= self.HEAVY_MASS
is_heavy(st) == [ret |-> FGe(st.self.mass, IntF(HEAVY_MASS)), st |-> st]

\* get_stack with `or` in place of `and` in its first test
get_stack_or(st) ==
    LET b1 == is_bulky(st)
    IN IF b1.ret \/ is_heavy(b1.st).ret THEN [ret |-> "REJECTED", st |-> b1.st]
       ELSE [ret |-> "STANDARD", st |-> b1.st]

\* get_stack: `if self.is_bulky and self.is_heavy` reads is_bulky, and the
\* `elif self.is_bulky or self.is_heavy` reads it again
get_stack(st) ==
    LET b1 == is_bulky(st)
    IN IF b1.ret /\ is_heavy(b1.st).ret THEN [ret |-> "REJECTED", st |-> b1.st]
       ELSE LET b2 == is_bulky(b1.st)
            IN IF b2.ret \/ is_heavy(b2.st).ret
               THEN [ret |-> "SPECIAL", st |-> b2.st]
               ELSE [ret |-> "STANDARD", st |-> b2.st]

-----------------------------------------------------------------------------
(* The values the callers pass *)

Eps == Fin(1, -52)

\* decimal digits of a natural number
RECURSIVE Digits(_)
Digits(n) == IF n < 10 THEN <<AsciiDigits[n + 1]>>
             ELSE Digits(n \div 10) \o <<AsciiDigits[(n % 10) + 1]>>

\* n written with exactly w digits
RECURSIVE DigitsPad(_, _)
DigitsPad(n, w) == IF w = 0 THEN <<>>
                   ELSE DigitsPad(n \div 10, w - 1) \o <<AsciiDigits[(n % 10) + 1]>>

Abs(n) == IF n < 0 THEN -n ELSE n

\* a text that denotes the number v (an int, or a float with at most nine
\* binary places), written independently of the parser
Render(v) ==
    CASE v.ty = "int" ->
            (IF v.n < 0 THEN <<"-">> ELSE <<>>) \o Digits(Abs(v.n))
            \o (IF v.exp10 > 0 THEN <<"e">> \o Digits(v.exp10) ELSE <<>>)
      [] v.ty = "float" /\ v.f.k = "nan" -> <<"n", "a", "n">>
      [] v.ty = "float" /\ v.f.k = "inf" ->
            (IF v.f.m < 0 THEN <<"-">> ELSE <<>>) \o <<"i", "n", "f">>
      [] v.ty = "float" /\ v.f.k = "fin" /\ v.f.e >= 0 ->
            (IF v.f.m < 0 THEN <<"-">> ELSE <<>>)
            \o Digits(Abs(v.f.m) * Pow(2, v.f.e)) \o <<".", "0">>
      [] v.ty = "float" /\ v.f.k = "fin" /\ v.f.e < 0 /\ v.f.e >= -9 ->
            LET q == Pow(2, -v.f.e)
            IN (IF v.f.m < 0 THEN <<"-">> ELSE <<>>)
               \o Digits(Abs(v.f.m) \div q) \o <<".">>
               \o DigitsPad((Abs(v.f.m) % q) * Pow(5, -v.f.e), -v.f.e)

\* the three ways a text is written: plain, in full-width digits, with white
\* space around and between its characters
Styles == {"plain", "fullwidth", "spaced"}
Blanks == <<" ", "\t", "U+3000">>
Styled(st, s) ==
    CASE st = "plain" -> s
      [] st = "fullwidth" ->
            [i \in DOMAIN s |->
                IF \E j \in 1..10 : AsciiDigits[j] = s[i]
                THEN FullwidthDigits[(CHOOSE j \in 1..10 : AsciiDigits[j] = s[i])]
                ELSE s[i]]
      [] st = "spaced" ->
            [i \in 1..(2 * Len(s) + 1) |->
                IF i % 2 = 1 THEN Blanks[((i \div 2) % 3) + 1] ELSE s[i \div 2]]

Text(st, v) == PyStr(Styled(st, Render(v)))

\* numbers that are also passed as text
Written == {PyInt(100), PyInt(50), PyInt(20), PyInt(0), PyInt(1001),
            PyFloat(Fin(299, -1)), PyFloat(NegInf), PyFloat(NaN),
            PyBigInt(1, 400)}

\* every such text, with the number it was written from
Writings == {[text |-> Text(st, v), number |-> v] : v \in Written, st \in Styles}

\* the number a text was written from; any other value is its own twin
Twin(value) ==
    IF \E w \in Writings : w.text = value
    THEN (CHOOSE w \in Writings : w.text = value).number
    ELSE value

TwinArgs(a) == [p \in DOMAIN a |-> Twin(a[p])]

Params == {"width", "height", "length", "mass"}

\* faults of every kind
CommonFaulty == {PyFloat(Eps), PyFloat(Fin(2001, -1)), PyFloat(NegInf), PyNone,
                 PyBigInt(1, 400)}

Unparseable == {PyStr(<<"a", "b", "c">>),
                PyStr(<<"1", "2", ".", "3", "4", ".", "5", "6">>),
                PyStr(<<" ", " ">>), PyStr(<<"s", "n", "a", "n">>)}

Faulty ==
    CommonFaulty \cup Unparseable
    \cup {PyInt(0), PyInt(-5), PyInt(1001), PyFloat(Fin(1, -53)), PyFloat(NaN),
          PyFloat(PosInf), PyList, Text("plain", PyFloat(NaN)),
          Text("spaced", PyFloat(NegInf)), Text("plain", PyBigInt(1, 400)),
          Text("fullwidth", PyInt(0)), Text("fullwidth", PyInt(1001))}

WidthValues ==
    {PyInt(100), PyInt(150), PyInt(1000), PyFloat(Fin(299, -1)), PyFloat(Fin(1, -51)),
     Text("plain", PyInt(100)), Text("spaced", PyInt(100)),
     Text("fullwidth", PyInt(100)), Text("spaced", PyFloat(Fin(299, -1)))}

HeightValues == {PyInt(100), PyInt(50), PyInt(1000), Text("spaced", PyInt(50))}

LengthValues ==
    {PyInt(100), PyInt(50), PyInt(1000), PyFloat(Fin(1599, -4)),
     Text("fullwidth", PyInt(50))}

MassValues ==
    {PyInt(10), PyInt(20), PyInt(1000), PyFloat(Fin(39, -1)), PyFloat(Fin(1, -51)),
     Text("fullwidth", PyInt(20))}

\* sort(100, 100, 50, 10), into which the faults are put
Base == [width |-> PyInt(100), height |-> PyInt(100), length |-> PyInt(50),
         mass |-> PyInt(10)]

\* every combination of the values above; one fault of any kind in any one
\* parameter; two faults in any two parameters
ArgSpace ==
    [width : WidthValues, height : HeightValues, length : LengthValues,
     mass : MassValues]
    \cup {[Base EXCEPT ![p] = f] : p \in Params, f \in Faulty}
    \cup {[Base EXCEPT ![p] = f, ![q] = g] :
              p \in Params, q \in Params, f \in CommonFaulty, g \in CommonFaulty}

\* invocations made between two invocations that are compared
Interferers ==
    {[width |-> PyInt(150), height |-> PyInt(150), length |-> PyInt(150),
      mass |-> PyInt(25)],
     [width |-> PyInt(100), height |-> PyNone, length |-> PyInt(50),
      mass |-> PyInt(10)]}

-----------------------------------------------------------------------------
(* The state machine: callers invoke sort(), or build a Package and read it *)

\* the mass validated before the dimensions
ValidationOrderMassFirst == <<"mass", "width", "height", "length">>

\* self.width, self.height, self.length, self.mass are validated in this order
ValidationOrder == <<"width", "height", "length", "mass">>

NoArgs == [width |-> PyNone, height |-> PyNone, length |-> PyNone, mass |-> PyNone]
NoOutcome == [kind |-> "none"]
NoRead == [op |-> "none"]

\* tracked: the arguments whose invocations are compared with each other
Init ==
    /\ tracked \in ArgSpace
    /\ pc = "idle"
    /\ entry = "sort"
    /\ args = NoArgs
    /\ self = Blank
    /\ examined = {}
    /\ outcome = NoOutcome
    /\ last = NoRead
    /\ reads = 0
    /\ stacks = {}
    /\ nvol = 0
    /\ nmax = 0
    /\ frozen = Blank
    /\ calls = 0
    /\ remembered = [set |-> FALSE]

\* position of a parameter in the validation order
Pos(p) == CHOOSE i \in DOMAIN ValidationOrder : ValidationOrder[i] = p

AfterParam(p) ==
    IF Pos(p) < Len(ValidationOrder) THEN ValidationOrder[Pos(p) + 1] ELSE "init_cache"

\* __init__ starts on a new instance
Enter(e, a) ==
    /\ pc = "idle"
    /\ pc' = ValidationOrder[1]
    /\ entry' = e
    /\ args' = a
    /\ self' = NewInstance(self)
    /\ examined' = {}
    /\ outcome' = NoOutcome
    /\ last' = NoRead
    /\ reads' = 0
    /\ stacks' = {}
    /\ nvol' = 0
    /\ nmax' = 0
    /\ frozen' = Blank
    /\ calls' = calls + 1
    /\ UNCHANGED <<tracked, remembered>>

\* sort(width, height, length, mass) is called: with the tracked arguments,
\* with their numeric twins, or with unrelated ones in between
Call(a) == calls < MaxCalls /\ Enter("sort", a)

\* a caller builds Package(width, height, length, mass) itself
Build == calls < MaxBuilds /\ Enter("Package", tracked)

\* self.<p> = self._validate_numeric(<p>, "<p>"): the attribute is set, or the
\* exception leaves __init__ (and sort) at once
Validate(p) ==
    /\ pc = p
    /\ \E r \in {validate_numeric(args[p], p)} :
          /\ examined' = examined \cup {p}
          /\ IF r.ok
             THEN /\ self' = [self EXCEPT ![p] = r.f]
                  /\ pc' = AfterParam(p)
                  /\ UNCHANGED outcome
             ELSE /\ outcome' = [kind |-> "raise", exc |-> r.exc, msg |-> r.msg]
                  /\ pc' = "idle"
                  /\ UNCHANGED self
    /\ UNCHANGED <<tracked, entry, args, last, reads, stacks, nvol, nmax, frozen,
                   calls, remembered>>

\* the end of __init__: both caches start as None
InitCaches ==
    /\ pc = "init_cache"
    /\ self' = InitCache(self)
    /\ frozen' = InitCache(self)
    /\ pc' = "constructed"
    /\ UNCHANGED <<tracked, entry, args, examined, outcome, last, reads, stacks,
                   nvol, nmax, calls, remembered>>

\* sort: return package.get_stack()
SortReturn ==
    /\ pc = "constructed"
    /\ entry = "sort"
    /\ \E r \in {get_stack([self |-> self, nvol |-> nvol, nmax |-> nmax])} :
          /\ self' = r.st.self
          /\ nvol' = r.st.nvol
          /\ nmax' = r.st.nmax
          /\ outcome' = [kind |-> "return", label |-> r.ret]
          /\ stacks' = stacks \cup {r.ret}
    /\ pc' = "idle"
    /\ UNCHANGED <<tracked, entry, args, examined, last, reads, frozen, calls,
                   remembered>>

\* package.<op>, or package.get_stack()
Property(op, st) ==
    CASE op = "volume" -> volume(st)
      [] op = "max_dimension" -> max_dimension(st)
      [] op = "is_bulky" -> is_bulky(st)
      [] op = "is_heavy" -> is_heavy(st)
      [] op = "get_stack" -> get_stack(st)

\* a read of one property, or a call of get_stack, on a Package a caller built
Read(op) ==
    /\ pc = "constructed"
    /\ entry = "Package"
    /\ reads < MaxReads
    /\ \E r \in {Property(op, [self |-> self, nvol |-> nvol, nmax |-> nmax])} :
          /\ self' = r.st.self
          /\ nvol' = r.st.nvol
          /\ nmax' = r.st.nmax
          /\ last' = CASE op \in {"volume", "max_dimension"} -> [op |-> op, f |-> r.ret]
                       [] op \in {"is_bulky", "is_heavy"} -> [op |-> op, b |-> r.ret]
                       [] op = "get_stack" -> [op |-> op, label |-> r.ret]
          /\ stacks' = IF op = "get_stack" THEN stacks \cup {r.ret} ELSE stacks
    /\ reads' = reads + 1
    /\ UNCHANGED <<tracked, pc, entry, args, examined, outcome, frozen, calls,
                   remembered>>

ReadVolume == Read("volume")
ReadMaxDimension == Read("max_dimension")
ReadIsBulky == Read("is_bulky")
ReadIsHeavy == Read("is_heavy")
ReadGetStack == Read("get_stack")

\* the caller drops the Package it built
Discard ==
    /\ pc = "constructed"
    /\ entry = "Package"
    /\ pc' = "idle"
    /\ UNCHANGED <<tracked, entry, args, self, examined, outcome, last, reads,
                   stacks, nvol, nmax, frozen, calls, remembered>>

\* the caller keeps what sort gave for the tracked arguments, to compare later
\* invocations with it
Remember ==
    /\ pc = "idle"
    /\ entry = "sort"
    /\ args = tracked
    /\ outcome # NoOutcome
    /\ ~remembered.set
    /\ remembered' = [set |-> TRUE, outcome |-> outcome, at |-> calls]
    /\ UNCHANGED <<tracked, pc, entry, args, self, examined, outcome, last, reads,
                   stacks, nvol, nmax, frozen, calls>>

\* callers of sort()
Next ==
    \/ \E a \in {tracked, TwinArgs(tracked)} \cup Interferers : Call(a)
    \/ \E p \in Params : Validate(p)
    \/ InitCaches
    \/ SortReturn
    \/ Remember

Spec == Init /\ [][Next]_vars

\* callers that build a Package and read its properties
NextPackage ==
    \/ Build
    \/ \E p \in Params : Validate(p)
    \/ InitCaches
    \/ ReadVolume
    \/ ReadMaxDimension
    \/ ReadIsBulky
    \/ ReadIsHeavy
    \/ ReadGetStack
    \/ Discard

SpecPackage == Init /\ [][NextPackage]_vars

-----------------------------------------------------------------------------
(* What the properties below say about the arguments, stated on the numbers *)
(* the arguments denote and not on what _validate_numeric makes of them     *)

Order == <<"width", "height", "length", "mass">>

IsNumber(v) == v.ty \in {"int", "float"}

\* an int beyond the range of a double
Huge(v) == v.ty = "int" /\ v.exp10 > 0

\* the float equal to a number that is not Huge
AsFloat(v) == IF v.ty = "float" THEN v.f ELSE Fin(v.n, 0)

\* a finite number above the minimum threshold and at most 1000
ValidInput(value) ==
    LET v == Twin(value)
    IN /\ IsNumber(v)
       /\ ~Huge(v)
       /\ AsFloat(v).k = "fin"
       /\ FGt(AsFloat(v), Fin(1, -52))
       /\ FLe(AsFloat(v), Fin(1000, 0))

AllValid(a) == \A p \in Params : ValidInput(a[p])

\* the first parameter, in the order width, height, length, mass, whose
\* argument is not valid
FirstInvalid(a, i) ==
    /\ ~ValidInput(a[Order[i]])
    /\ \A j \in 1..(i - 1) : ValidInput(a[Order[j]])

\* an invocation of sort has ended
SortEnded == pc = "idle" /\ entry = "sort" /\ outcome # NoOutcome

\* bulky and heavy, of three dimensions and a mass
Bulky(w, h, l) ==
    \/ FGe(FMul(FMul(w, h), l), Fin(1000000, 0))
    \/ \E d \in {w, h, l} : FGe(d, Fin(150, 0))

Heavy(m) == FGe(m, Fin(20, 0))

-----------------------------------------------------------------------------
(* The properties *)

\* C1: for four valid inputs sort returns one of the three labels: REJECTED
\* exactly when the package is bulky and heavy, SPECIAL exactly when it is
\* one of the two, STANDARD exactly when it is neither.
C1_Decision ==
    (SortEnded /\ AllValid(args)) =>
        LET bulky == Bulky(AsFloat(Twin(args.width)), AsFloat(Twin(args.height)),
                           AsFloat(Twin(args.length)))
            heavy == Heavy(AsFloat(Twin(args.mass)))
        IN /\ outcome.kind = "return"
           /\ outcome.label \in {"STANDARD", "SPECIAL", "REJECTED"}
           /\ (outcome.label = "REJECTED") <=> (bulky /\ heavy)
           /\ (outcome.label = "SPECIAL") <=> (bulky # heavy)
           /\ (outcome.label = "STANDARD") <=> (~bulky /\ ~heavy)

\* sort returned SPECIAL for a package that is heavy and not bulky, one of
\* whose arguments was a text
C1_Witness ==
    /\ SortEnded
    /\ AllValid(args)
    /\ outcome.kind = "return"
    /\ outcome.label = "SPECIAL"
    /\ Heavy(self.mass)
    /\ ~Bulky(self.width, self.height, self.length)
    /\ \E p \in Params : args[p].ty = "str"

\* C2: is_bulky is true exactly when width*height*length >= 1,000,000 or the
\* largest dimension >= 150, is_heavy exactly when mass >= 20; a value equal
\* to its threshold triggers the predicate, a value below it does not.
C2_Predicates ==
    LET vol == FMul(FMul(self.width, self.height), self.length)
    IN /\ last.op = "is_bulky" =>
            /\ last.b <=> Bulky(self.width, self.height, self.length)
            /\ vol = Fin(1000000, 0) => last.b
            /\ (\E d \in {self.width, self.height, self.length} : d = Fin(150, 0))
                   => last.b
            /\ (/\ FLt(vol, Fin(1000000, 0))
                /\ \A d \in {self.width, self.height, self.length} :
                       FLt(d, Fin(150, 0))) => ~last.b
       /\ last.op = "is_heavy" =>
            /\ last.b <=> Heavy(self.mass)
            /\ self.mass = Fin(20, 0) => last.b
            /\ FLt(self.mass, Fin(20, 0)) => ~last.b

\* is_bulky was read as true on a package of volume exactly 1,000,000 whose
\* dimensions are all below 150
C2_Witness ==
    /\ last.op = "is_bulky"
    /\ last.b
    /\ FMul(FMul(self.width, self.height), self.length) = Fin(1000000, 0)
    /\ \A d \in {self.width, self.height, self.length} : FLt(d, Fin(150, 0))

\* the message a fault of the argument calls for: none for a valid argument
\* and for a text whose number is beyond the range of a double
ExpectedMessages(value) ==
    LET v == Twin(value)
    IN IF ~IsNumber(v)
       THEN {"Invalid {param_name}: {value}. Must be a valid number"}
       ELSE IF Huge(v)
       THEN IF value.ty = "str" THEN {}
            ELSE {"Mass exceeds maximum limit of {MAX_MASS}kg",
                  "Dimension exceeds maximum limit of {MAX_DIMENSION}cm"}
       ELSE IF AsFloat(v).k \in {"nan", "inf"}
       THEN {"Invalid {param_name}: {value}. Must be a finite number"}
       ELSE IF FLe(AsFloat(v), Fin(1, -52))
       THEN {"Invalid {param_name}: {value}. Must be greater than {MIN_DIMENSION}"}
       ELSE IF FGt(AsFloat(v), Fin(1000, 0))
       THEN {"Mass exceeds maximum limit of {MAX_MASS}kg",
             "Dimension exceeds maximum limit of {MAX_DIMENSION}cm"}
       ELSE {}

\* C3: the message of a validation failure is chosen by the kind of fault:
\* "greater than" at or below the minimum, "exceeds maximum limit" above the
\* maximum, "finite number" for nan and +/-inf (-inf included), "valid
\* number" for what is no number.
C3_MessageByFault ==
    \A i \in 1..4 :
        (/\ SortEnded
         /\ FirstInvalid(args, i)
         /\ ExpectedMessages(args[Order[i]]) # {}) =>
            /\ outcome.kind = "raise"
            /\ outcome.msg.fmt \in ExpectedMessages(args[Order[i]])

\* C4: whatever makes sort reject an input, what reaches the caller is a
\* PackageError.
C4_OnlyPackageError == outcome.kind = "raise" => outcome.exc = "PackageError"

\* C5: the parameters are validated in the order width, height, length,
\* mass; the error is that of the first invalid one, no later parameter is
\* examined, and neither a Package nor a label comes out.
C5_FailFast ==
    /\ \A i \in 1..4 :
           Order[i] \in examined =>
               \A j \in 1..(i - 1) :
                   Order[j] \in examined /\ ValidInput(args[Order[j]])
    /\ \A i \in 1..4 :
           (pc = "idle" /\ calls > 0 /\ FirstInvalid(args, i)) =>
               /\ outcome.kind = "raise"
               /\ LET r == validate_numeric(args[Order[i]], Order[i])
                  IN ~r.ok /\ outcome.exc = r.exc /\ outcome.msg = r.msg
               /\ examined = {Order[j] : j \in 1..i}
               /\ \A j \in i..4 : self[Order[j]] = Absent
               /\ self.volume_ = Absent /\ self.max_dimension_ = Absent
               /\ stacks = {}

\* sort failed on its second parameter while the fourth was invalid too
C5_Witness ==
    /\ SortEnded
    /\ FirstInvalid(args, 2)
    /\ ~ValidInput(args.mass)
    /\ args.mass # args.height
    /\ outcome.kind = "raise"
    /\ examined = {"width", "height"}

\* the parameter whose validation failed
Failed(p) == p \in examined /\ self[p] = Absent

\* C6: the message of every validation failure identifies the offending
\* parameter and the offending value.
C6_MessageIdentifies ==
    \A p \in Params :
        (pc = "idle" /\ outcome.kind = "raise" /\ outcome.exc = "PackageError"
         /\ Failed(p)) =>
            /\ \/ "param_name" \in DOMAIN outcome.msg /\ outcome.msg.param_name = p
               \/ p = "mass" /\ outcome.msg.fmt = "Mass exceeds maximum limit of {MAX_MASS}kg"
            /\ "value" \in DOMAIN outcome.msg

\* C7: the four fields of a constructed Package are finite, above the
\* minimum threshold and at most 1000; an argument equal to the threshold is
\* rejected, an argument equal to 1000 is accepted.
C7_FieldBounds ==
    /\ self.volume_ # Absent =>
           \A p \in Params :
               /\ self[p].k = "fin"
               /\ FGt(self[p], Fin(1, -52))
               /\ FLe(self[p], Fin(1000, 0))
    /\ \A p \in Params :
           /\ (p \in examined /\ Twin(args[p]) = PyFloat(Fin(1, -52))) =>
                  self[p] = Absent /\ outcome.kind = "raise"
           /\ (p \in examined /\ Twin(args[p]) = PyInt(1000)) =>
                  self[p] = Fin(1000, 0)

\* a Package was constructed whose width is 1000 and whose mass is twice the
\* threshold
C7_Witness ==
    /\ pc = "constructed"
    /\ self.width = Fin(1000, 0)
    /\ self.mass = Fin(1, -51)
    /\ self.volume_ = None

\* C8: a text with white space or full-width digits gives what the number it
\* denotes gives: the same label or the same failure.
C8_TextAsNumber ==
    (SortEnded /\ remembered.set /\ args = TwinArgs(tracked)) =>
        outcome = remembered.outcome

\* C9: two invocations of sort with the same four inputs end the same way,
\* whatever ran before or in between, and each starts on a Package of its
\* own that holds nothing of an earlier one.
C9_Deterministic ==
    /\ (SortEnded /\ remembered.set /\ args = tracked) =>
           outcome = remembered.outcome
    /\ (pc # "idle" /\ examined = {}) =>
           self = Blank /\ nvol = 0 /\ nmax = 0 /\ stacks = {}

\* sort was called again with the tracked inputs after another invocation
C9_Witness ==
    /\ SortEnded
    /\ remembered.set
    /\ args = tracked
    /\ calls >= remembered.at + 2
    /\ outcome.kind = "return"

\* C10: on a constructed Package the cached volume is unset or equals
\* width*height*length, the cached max_dimension is unset or the largest of
\* the three, each is computed at most once, no read changes the four fields,
\* and get_stack keeps returning the same label.
C10_Memoized ==
    self.volume_ # Absent =>
        /\ \/ self.volume_ = None
           \/ self.volume_ = FMul(FMul(self.width, self.height), self.length)
        /\ \/ self.max_dimension_ = None
           \/ /\ self.max_dimension_ \in {self.width, self.height, self.length}
              /\ \A d \in {self.width, self.height, self.length} :
                     FGe(self.max_dimension_, d)
        /\ nvol <= 1
        /\ nmax <= 1
        /\ \A p \in Params : self[p] = frozen[p]
        /\ Cardinality(stacks) <= 1

\* get_stack was called after two other reads, with both values cached
C10_Witness ==
    /\ pc = "constructed"
    /\ reads >= 3
    /\ last.op = "get_stack"
    /\ nvol = 1
    /\ nmax = 1
    /\ self.volume_ # None
    /\ self.max_dimension_ # None
    /\ Cardinality(stacks) = 1

====
